---- MODULE Spec2Model ----
(***************************************************************************)
(* Model of surface.py (class Surface): a flat CSV line of height samples  *)
(* is reshaped to an N x N primary grid, every row is low-pass filtered in *)
(* the frequency domain (waviness), the remainder is the roughness, and    *)
(* per-row mean absolute values are the metrics Wa and Ra.                 *)
(*                                                                         *)
(* Numbers.  The program computes in IEEE doubles; the model computes the  *)
(* exact real numbers those doubles approximate.  For a transform length   *)
(* M = 3N that divides 24 every twiddle factor exp(2 pi i t / M) has its   *)
(* real and imaginary part in the field Q(sqrt 2, sqrt 3), so a real       *)
(* number is the tuple <<a, b, c, d, D>> standing for                      *)
(*        (a + b*sqrt(2) + c*sqrt(3) + d*sqrt(6)) / D                      *)
(* in lowest terms with D > 0, and a complex number is a pair <<re, im>>.  *)
(***************************************************************************)
EXTENDS Integers, Sequences, FiniteSets, TLC

\* redo is the caller's position in a re-decomposition: "none" until an
\* assignment changes cutoff or sample_width, then "assigned", "filtered"
\* once parse_waviness has returned, "subtracted" once parse_roughness has
\* returned after it, "done" once calculate_metrics has returned after that.
VARIABLES pc, file, cutoff, sample_width, attrs, npr, primary,
          waviness, wavelengths, roughness, metrics, err, calls, redo

vars == <<pc, file, cutoff, sample_width, attrs, npr, primary,
          waviness, wavelengths, roughness, metrics, err, calls, redo>>

----------------------------------------------------------------------------
(* Exact real arithmetic in Q(sqrt 2, sqrt 3) *)

\* F(e), with e evaluated once and F given its value
Apply(F(_), e) == CHOOSE r \in {F(v) : v \in {e}} : TRUE

\* the sequence s with every element evaluated
Values(s) == s \o <<>>

IAbs(n) == IF n < 0 THEN -n ELSE n

RECURSIVE Gcd(_, _)
Gcd(m, n) == IF n = 0 THEN IAbs(m) ELSE Gcd(n, m % IAbs(n))

Norm(x) ==
    LET s == IF x[5] < 0 THEN -1 ELSE 1
        g == Gcd(Gcd(Gcd(x[1], x[2]), Gcd(x[3], x[4])), x[5])
    IN  <<(s * x[1]) \div g, (s * x[2]) \div g, (s * x[3]) \div g,
          (s * x[4]) \div g, (s * x[5]) \div g>>

Rat(n, d) == Norm(<<n, 0, 0, 0, d>>)
Num(n) == <<n, 0, 0, 0, 1>>
Zero == Num(0)

\* Sums and products are left unreduced (a sum over the least common
\* denominator); Norm reduces a result once it is complete.
NAdd(x, y) ==
    IF x[5] = y[5]
    THEN <<x[1] + y[1], x[2] + y[2], x[3] + y[3], x[4] + y[4], x[5]>>
    ELSE LET g == Gcd(x[5], y[5])
             p == y[5] \div g
             q == x[5] \div g
         IN  <<x[1] * p + y[1] * q, x[2] * p + y[2] * q,
               x[3] * p + y[3] * q, x[4] * p + y[4] * q, x[5] * p>>

NNeg(x) == <<-x[1], -x[2], -x[3], -x[4], x[5]>>

NSub(x, y) == NAdd(x, NNeg(y))

NMul(x, y) ==
    <<x[1]*y[1] + 2*x[2]*y[2] + 3*x[3]*y[3] + 6*x[4]*y[4],
      x[1]*y[2] + x[2]*y[1] + 3*(x[3]*y[4] + x[4]*y[3]),
      x[1]*y[3] + x[3]*y[1] + 2*(x[2]*y[4] + x[4]*y[2]),
      x[1]*y[4] + x[4]*y[1] + x[2]*y[3] + x[3]*y[2],
      x[5] * y[5]>>

NScale(x, n) == <<x[1] * n, x[2] * n, x[3] * n, x[4] * n, x[5]>>

NDiv(x, n) == <<x[1], x[2], x[3], x[4], x[5] * n>>


\* the sign of a + b*sqrt(2); when a and b differ in sign, multiplying by
\* 1 + sqrt(2) > 0 keeps the sign and shrinks |b|
RECURSIVE Sign2(_, _)
Sign2(a, b) ==
    IF a >= 0 /\ b >= 0 THEN (IF a = 0 /\ b = 0 THEN 0 ELSE 1)
    ELSE IF a <= 0 /\ b <= 0 THEN -1
    ELSE Sign2(a + 2 * b, a + b)

\* the sign of (a + b*sqrt(2)) + (c + d*sqrt(2))*sqrt(3)
Sign(x) ==
    LET a == x[1]  b == x[2]  c == x[3]  d == x[4]
        su == Sign2(a, b)
        sv == Sign2(c, d)
        \* u*u - 3*v*v, again of the form e + f*sqrt(2)
        q == Sign2(a*a + 2*b*b - 3*c*c - 6*d*d, 2*a*b - 6*c*d)
    IN  IF su >= 0 /\ sv >= 0 THEN (IF su = 0 /\ sv = 0 THEN 0 ELSE 1)
        ELSE IF su <= 0 /\ sv <= 0 THEN -1
        ELSE IF su > 0 THEN q
        ELSE -q

NAbs(x) == IF Sign(x) < 0 THEN NNeg(x) ELSE x

NLe(x, y) == Sign(NSub(y, x)) >= 0

\* the sum of s[lo..hi], by halves
RECURSIVE NSumRange(_, _, _)
NSumRange(s, lo, hi) ==
    IF lo > hi THEN Zero
    ELSE IF lo = hi THEN s[lo]
    ELSE LET mid == (lo + hi) \div 2
         IN  NAdd(NSumRange(s, lo, mid), NSumRange(s, mid + 1, hi))

NSum(s) == Apply(LAMBDA v : NSumRange(v, 1, Len(v)), Values(s))

----------------------------------------------------------------------------
(* Complex numbers and the discrete Fourier transform *)

CAdd(z, w) == <<NAdd(z[1], w[1]), NAdd(z[2], w[2])>>
CMul(z, w) == <<NSub(NMul(z[1], w[1]), NMul(z[2], w[2])),
                NAdd(NMul(z[1], w[2]), NMul(z[2], w[1]))>>
CScale(z, n) == <<NScale(z[1], n), NScale(z[2], n)>>
CDiv(z, n) == <<NDiv(z[1], n), NDiv(z[2], n)>>
CNorm(z) == <<Norm(z[1]), Norm(z[2])>>
CZero == <<Zero, Zero>>
CReal(x) == <<x, Zero>>
\* the product of two real numbers, the first one rational
QMul(x, y) == <<x[1] * y[1], x[1] * y[2], x[1] * y[3], x[1] * y[4], x[5] * y[5]>>

IsRational(x) == x[2] = 0 /\ x[3] = 0 /\ x[4] = 0

\* a real number times a complex number
CTimes(x, w) ==
    IF IsRational(x) THEN <<QMul(x, w[1]), QMul(x, w[2])>>
    ELSE <<NMul(x, w[1]), NMul(x, w[2])>>

\* the real part of a product of complex numbers
ReMul(z, w) ==
    IF z = CZero THEN Zero ELSE NSub(NMul(z[1], w[1]), NMul(z[2], w[2]))

RECURSIVE CSumRange(_, _, _)
CSumRange(s, lo, hi) ==
    IF lo > hi THEN CZero
    ELSE IF lo = hi THEN s[lo]
    ELSE LET mid == (lo + hi) \div 2
         IN  CAdd(CSumRange(s, lo, mid), CSumRange(s, mid + 1, hi))

CSum(s) == Apply(LAMBDA v : CSumRange(v, 1, Len(v)), Values(s))

\* cos(2 pi t / 24)
Cos24(t) ==
    LET r == t % 24
        h == IF r > 12 THEN 24 - r ELSE r          \* cos(2 pi - x) = cos x
        q == IF h > 6 THEN 12 - h ELSE h           \* cos(pi - x) = -cos x
        base == CASE q = 0 -> <<1, 0, 0, 0, 1>>
                  [] q = 1 -> <<0, 1, 0, 1, 4>>
                  [] q = 2 -> <<0, 0, 1, 0, 2>>
                  [] q = 3 -> <<0, 1, 0, 0, 2>>
                  [] q = 4 -> <<1, 0, 0, 0, 2>>
                  [] q = 5 -> <<0, -1, 0, 1, 4>>
                  [] q = 6 -> <<0, 0, 0, 0, 1>>
    IN  IF h > 6 THEN NNeg(base) ELSE base

CosTable == [t \in 0..23 |-> Cos24(t)]

\* exp(2 pi i t / M) for M dividing 24, t any integer
Omega(M, t) ==
    LET a == ((24 \div M) * (t % M)) % 24
    IN  <<CosTable[a], CosTable[(a + 18) % 24]>>   \* sin x = cos(x - pi/2)

\* numpy.fft.fft of a real sequence: F[k] = sum_m x[m] exp(-2 pi i k m / M),
\* k and m counted from 0
FFT(x) ==
    LET M == Len(x)
    IN  [k1 \in 1..M |->
            CNorm(CSum([m1 \in 1..M |->
                          CTimes(x[m1], Omega(M, -((k1 - 1) * (m1 - 1))))]))]

\* element n (counted from 0) of numpy.fft.ifft(f):
\* x[n] = (1/M) sum_k f[k] exp(2 pi i k n / M)
IFFTAt(f, n) ==
    LET M == Len(f)
    IN  CNorm(CDiv(CSum([k1 \in 1..M |-> CMul(f[k1], Omega(M, (k1 - 1) * n))]), M))

\* element n (counted from 0) of numpy.real(numpy.fft.ifft(f))
RealIFFTAt(f, n) ==
    LET M == Len(f)
    IN  Norm(NDiv(NSum([k1 \in 1..M |-> ReMul(f[k1], Omega(M, (k1 - 1) * n))]), M))

\* numpy.fft.ifft
IFFT(f) == Values([n1 \in 1..Len(f) |-> IFFTAt(f, n1 - 1)])

----------------------------------------------------------------------------
(* Bounds and inputs *)

\* number of public-method calls and attribute assignments after
\* construction; a re-decomposition takes four (one assignment, three calls)
MaxCalls == 4

\* the constructor's default cutoff
DefaultCutoff == 80

Cutoffs == {DefaultCutoff, 100, 600}
SampleWidths == {40, 100}

\* A file is the list of the comma-separated tokens of its first line: <<v>>
\* is a token that reads as the number v, <<>> is an empty token.
Toks(s) == [k \in 1..Len(s) |-> <<s[k]>>]

Flat64(s) == [k \in 1..64 |-> IF s = 0 THEN 5 ELSE ((k * k + s * k) % 11) - 5]

InputFiles ==
    { <<<<>>, <<>>>>,                                   \* ","    : no sample
      Toks(<<7>>),                                      \* N = 1
      Toks(<<7, 2, 1>>),                                \* 3 samples
      Toks(<<3, -1, 4, 4>>),                            \* N = 2
      <<<<5>>, <<>>, <<5>>, <<2>>, <<-3>>>>,            \* N = 2, one empty token
      Toks(<<1, 2, 3, 4, 9>>),                          \* 5 samples
      Toks(<<5, 5, 5, 5,  0, 1, 0, -1,  1, 2, 4, 8,  -3, 0, 2, -1>>),
      Toks(<<2, -2, 2, -2,  -4, -4, -4, -4,  0, 0, 0, 6,  1, 3, -5, 2>>),
      Toks(<<5, 5, 5, 5,  0, 1, 0, -1,  1, 2, 4, 8,  -3, 0, 2, -1, 6>>),
      Toks(Flat64(0)),                                  \* N = 8, every row 5
      Toks(Flat64(1)) }                                 \* N = 8

----------------------------------------------------------------------------
(* The program *)

Reverse(s) == [k \in 1..Len(s) |-> s[Len(s) + 1 - k]]

\* [float(x) for x in row[0].split(',') if x is not None and len(x) > 0]
ParseLine(tokens) ==
    LET kept == SelectSeq(tokens, LAMBDA x : Len(x) > 0)
    IN  Values([k \in 1..Len(kept) |-> Num(kept[k][1])])

\* int(numpy.sqrt(c))
ISqrt(c) == CHOOSE n \in 0..c : n * n <= c /\ (n + 1) * (n + 1) > c

\* faulty variant: a reshape that takes the first n*n elements and drops the rest
ReshapeTruncating(flat, n) == n * n <= Len(flat)

\* numpy.reshape accepts a shape only when it holds every element
ReshapeOk(flat, n) == Len(flat) = n * n

\* numpy.reshape(flat, (n, n)): row-major
Reshape(flat, n) ==
    Values([i \in 1..n |-> Values([k \in 1..n |-> flat[(i - 1) * n + k]])])

\* profile = flipped + row + flipped
Profile(row) == Reverse(row) \o row \o Reverse(row)

\* faulty variant: f[:-1] = f[:-1]*2, the DC bin doubled as well
DoubledFromZero(f, M) ==
    [k1 \in 1..M |->
        IF k1 - 1 < M - 1 THEN CNorm(CScale(f[k1], 2)) ELSE f[k1]]

\* f[1:-1] = f[1:-1]*2 for f of length M, positions counted from 0
Doubled(f, M) ==
    [k1 \in 1..M |->
        IF 1 <= k1 - 1 /\ k1 - 1 < M - 1
        THEN CNorm(CScale(f[k1], 2)) ELSE f[k1]]

\* wavelength = 2*(3*self.sample_width)/j, with Python 3's true division
Wavelength(sw, j) == Rat(2 * (3 * sw), j)

\* faulty variant: the scan over range(1, npr + 1)
StopIndexInclusive(n, sw, co) ==
    LET hits == {j \in 1..n : NLe(Rat(2 * (3 * sw), j), Num(co))}
    IN  IF hits = {} THEN 0 ELSE CHOOSE j \in hits : \A h \in hits : j <= h

\* the j at which the scan over range(1, npr) breaks; 0 when it never does
\* and stop_index stays unbound
StopIndex(n, sw, co) ==
    LET hits == {j \in 1..(n - 1) : NLe(Wavelength(sw, j), Num(co))}
    IN  IF hits = {} THEN 0 ELSE CHOOSE j \in hits : \A h \in hits : j <= h

\* self.wavelengths as the scan leaves it
Scanned(n, sw, co) ==
    LET stop == StopIndex(n, sw, co)
        last == IF stop = 0 THEN n - 1 ELSE stop
    IN  [j \in 1..last |-> Wavelength(sw, j)]

\* faulty variant: filtered[stop_index:] = 0, the last bin zeroed as well
FilteredToEnd(f, stop, M) ==
    Values([k1 \in 1..M |-> IF stop <= k1 - 1 THEN CZero ELSE f[k1]])

\* faulty variant: filtered[:stop_index] = 0, a high-pass filter
FilteredHighPass(f, stop, M) ==
    Values([k1 \in 1..M |-> IF k1 - 1 < stop THEN CZero ELSE f[k1]])

\* filtered[stop_index:-1] = 0 for f of length M, positions counted from 0
Filtered(f, stop, M) ==
    Values([k1 \in 1..M |->
        IF stop <= k1 - 1 /\ k1 - 1 < M - 1 THEN CZero ELSE f[k1]])

\* numpy.real(numpy.fft.ifft(filtered))[self.npr:2*self.npr]
MiddleReal(f, n) == Values([k \in 1..n |-> RealIFFTAt(f, n + k - 1)])

\* one pass of the loop body of parse_waviness, stop_index bound
WavinessRow(row, stop) ==
    LET n == Len(row)
        Slice(filtered) == MiddleReal(filtered, n)
        Transform(profile) ==
            Apply(Slice, Filtered(Doubled(FFT(profile), 3 * n), stop, 3 * n))
    IN  Apply(Transform, Profile(row))

\* parse_waviness: what it leaves in self.waviness and self.wavelengths, and
\* the exception it ends with
ParseWaviness(prim, n, sw, co, oldWl) ==
    LET stop == StopIndex(n, sw, co)
    IN  IF n = 0
        THEN [waviness |-> <<>>, wavelengths |-> oldWl, setWl |-> FALSE,
              err |-> "none"]
        ELSE IF stop = 0
        THEN [waviness |-> <<>>, wavelengths |-> Scanned(n, sw, co),
              setWl |-> TRUE, err |-> "UnboundLocalError"]
        ELSE [waviness |-> Values([i \in 1..n |-> WavinessRow(prim[i], stop)]),
              wavelengths |-> Scanned(n, sw, co), setWl |-> TRUE,
              err |-> "none"]

\* faulty variant: self.waviness[i] - self.primary[i]
RowDiffSwapped(p, w) == Values([k \in 1..Len(p) |-> Norm(NSub(w[k], p[k]))])

\* self.primary[i] - self.waviness[i]
RowDiff(p, w) == Values([k \in 1..Len(p) |-> Norm(NSub(p[k], w[k]))])

\* parse_roughness
ParseRoughness(prim, wav, n) ==
    IF Len(wav) < n
    THEN [roughness |-> <<>>, err |-> "IndexError"]
    ELSE [roughness |-> Values([i \in 1..n |-> RowDiff(prim[i], wav[i])]),
          err |-> "none"]

\* faulty variant: sum(row)/self.npr
MeanPlain(row, n) == Norm(NDiv(NSum([k \in 1..Len(row) |-> row[k]]), n))

\* sum(numpy.abs(row))/self.npr
MeanAbs(row, n) == Norm(NDiv(NSum([k \in 1..Len(row) |-> NAbs(row[k])]), n))

\* faulty variant: Ra computed from self.waviness
CalculateMetricsBothWaviness(wav, rough, n, old) ==
    IF Len(wav) < n \/ Len(rough) < n
    THEN [metrics |-> old, err |-> "IndexError"]
    ELSE [metrics |-> [Wa |-> Values([i \in 1..n |-> NDiv(NSum([k \in 1..n |-> NAbs(wav[i][k])]), n)]),
                       Ra |-> Values([i \in 1..n |-> NDiv(NSum([k \in 1..n |-> NAbs(wav[i][k])]), n)])],
          err |-> "none"]

\* calculate_metrics: the mapping it stores, or the exception that keeps it
\* from storing one
CalculateMetrics(wav, rough, n, old) ==
    IF Len(wav) < n \/ Len(rough) < n
    THEN [metrics |-> old, err |-> "IndexError"]
    ELSE [metrics |-> [Wa |-> Values([i \in 1..n |-> MeanAbs(wav[i], n)]),
                       Ra |-> Values([i \in 1..n |-> MeanAbs(rough[i], n)])],
          err |-> "none"]

NoMetrics == [Wa |-> <<>>, Ra |-> <<>>]

Init ==
    /\ pc = "new"
    /\ file \in InputFiles
    /\ cutoff \in Cutoffs
    /\ sample_width \in SampleWidths
    /\ attrs = {}
    /\ npr = 0
    /\ primary = <<>>
    /\ waviness = <<>>
    /\ wavelengths = <<>>
    /\ roughness = <<>>
    /\ metrics = NoMetrics
    /\ err = "none"
    /\ calls = 0
    /\ redo = "none"

\* Surface.__init__
Construct ==
    /\ pc = "new"
    /\ \E flat \in {ParseLine(file)} :
       \E n \in {ISqrt(Len(flat))} :
          LET base == {"filepath", "cutoff", "sample_width", "primary", "npr"}
          IN  /\ npr' = n
              /\ IF ~ReshapeOk(flat, n)
                 THEN /\ primary' = flat
                      /\ waviness' = <<>>
                      /\ wavelengths' = <<>>
                      /\ roughness' = <<>>
                      /\ metrics' = NoMetrics
                      /\ attrs' = base
                      /\ err' = "ValueError"
                      /\ pc' = "failed"
                 ELSE \E prim \in {Reshape(flat, n)} :
                      \E W \in {ParseWaviness(prim, n, sample_width, cutoff, <<>>)} :
                         LET wl == IF W.setWl THEN {"wavelengths"} ELSE {}
                         IN  /\ primary' = prim
                             /\ waviness' = W.waviness
                             /\ wavelengths' = W.wavelengths
                             /\ IF W.err # "none"
                                THEN /\ roughness' = <<>>
                                     /\ metrics' = NoMetrics
                                     /\ attrs' = base \cup {"waviness"} \cup wl
                                     /\ err' = W.err
                                     /\ pc' = "failed"
                                ELSE \E R \in {ParseRoughness(prim, W.waviness, n)} :
                                     \E M \in {CalculateMetrics(W.waviness, R.roughness,
                                                                n, NoMetrics)} :
                                        /\ roughness' = R.roughness
                                        /\ metrics' = M.metrics
                                        /\ attrs' = base \cup wl \cup
                                               {"waviness", "roughness", "metrics"}
                                        /\ err' = "none"
                                        /\ pc' = "ready"
    /\ UNCHANGED <<file, cutoff, sample_width, calls, redo>>

\* surface.cutoff = c
SetCutoff ==
    /\ pc = "ready"
    /\ calls < MaxCalls
    /\ \E c \in Cutoffs :
           /\ cutoff' = c
           /\ redo' = IF c # cutoff THEN "assigned" ELSE redo
    /\ calls' = calls + 1
    /\ err' = "none"
    /\ UNCHANGED <<pc, file, sample_width, attrs, npr, primary, waviness,
                   wavelengths, roughness, metrics>>

\* surface.sample_width = s
SetSampleWidth ==
    /\ pc = "ready"
    /\ calls < MaxCalls
    /\ \E s \in SampleWidths :
           /\ sample_width' = s
           /\ redo' = IF s # sample_width THEN "assigned" ELSE redo
    /\ calls' = calls + 1
    /\ err' = "none"
    /\ UNCHANGED <<pc, file, cutoff, attrs, npr, primary, waviness,
                   wavelengths, roughness, metrics>>

\* surface.parse_waviness()
CallParseWaviness ==
    /\ pc = "ready"
    /\ calls < MaxCalls
    /\ \E W \in {ParseWaviness(primary, npr, sample_width, cutoff, wavelengths)} :
           /\ waviness' = W.waviness
           /\ wavelengths' = W.wavelengths
           /\ attrs' = attrs \cup (IF W.setWl THEN {"wavelengths"} ELSE {})
           /\ err' = W.err
           /\ redo' = IF redo = "none" THEN "none"
                      ELSE IF W.err = "none" THEN "filtered" ELSE "assigned"
    /\ calls' = calls + 1
    /\ UNCHANGED <<pc, file, cutoff, sample_width, npr, primary, roughness,
                   metrics>>

\* surface.parse_roughness()
CallParseRoughness ==
    /\ pc = "ready"
    /\ calls < MaxCalls
    /\ \E R \in {ParseRoughness(primary, waviness, npr)} :
           /\ roughness' = R.roughness
           /\ err' = R.err
           /\ redo' = IF redo = "filtered" /\ R.err = "none"
                      THEN "subtracted" ELSE redo
    /\ calls' = calls + 1
    /\ UNCHANGED <<pc, file, cutoff, sample_width, attrs, npr, primary,
                   waviness, wavelengths, metrics>>

\* surface.calculate_metrics()
CallCalculateMetrics ==
    /\ pc = "ready"
    /\ calls < MaxCalls
    /\ \E M \in {CalculateMetrics(waviness, roughness, npr, metrics)} :
           /\ metrics' = M.metrics
           /\ err' = M.err
           /\ redo' = IF redo = "subtracted" /\ M.err = "none"
                      THEN "done" ELSE redo
    /\ calls' = calls + 1
    /\ UNCHANGED <<pc, file, cutoff, sample_width, attrs, npr, primary,
                   waviness, wavelengths, roughness>>

Next ==
    \/ Construct
    \/ SetCutoff
    \/ SetSampleWidth
    \/ CallParseWaviness
    \/ CallParseRoughness
    \/ CallCalculateMetrics

Spec == Init /\ [][Next]_vars

----------------------------------------------------------------------------
(* Vocabulary of the properties *)

\* construction has ended, and nothing has been called since
Built == pc # "new" /\ calls = 0

\* construction has completed successfully, and nothing has been called since
Ready0 == pc = "ready" /\ calls = 0

Rows == 1..npr

\* the non-empty tokens of the file, and the value of the j-th of them
Samples == {k \in 1..Len(file) : Len(file[k]) > 0}
Count == Cardinality(Samples)
SampleAt(j) ==
    LET p == CHOOSE k \in Samples : Cardinality({h \in Samples : h <= k}) = j
    IN  Num(file[p][1])

\* 2*(3*sw)/j <= co, over the integers
Reaches(sw, co, j) == 2 * (3 * sw) <= co * j

NoStop(n, sw, co) == \A j \in 1..(n - 1) : ~Reaches(sw, co, j)

IsConstantRow(row) == \A k \in 1..Len(row) : row[k] = row[1]

ZeroRow(n) == [k \in 1..n |-> Zero]

\* |x| as the larger of x and -x
AbsVal(x) == IF NLe(x, NNeg(x)) THEN NNeg(x) ELSE x

\* rough is prim - wav, row by row
RoughFreshOf(prim, wav, rough, n) ==
    /\ Len(wav) = n
    /\ Len(rough) = n
    /\ \A i \in 1..n : \A k \in 1..n :
          rough[i][k] = Norm(NSub(prim[i][k], wav[i][k]))

\* roughness is primary - waviness for the waviness now stored
RoughFresh == RoughFreshOf(primary, waviness, roughness, npr)

\* m * n is the sum of the absolute values of vals
IsMeanAbs(m, vals, n) ==
    Norm(NScale(m, n)) = Norm(NSum([k \in 1..Len(vals) |-> AbsVal(vals[k])]))

\* met holds the per-row mean absolute values of wav and rough
MetricsFreshOf(wav, rough, met, n) ==
    /\ Len(wav) = n
    /\ Len(rough) = n
    /\ Len(met.Wa) = n
    /\ Len(met.Ra) = n
    /\ \A i \in 1..n : /\ IsMeanAbs(met.Wa[i], wav[i], n)
                       /\ IsMeanAbs(met.Ra[i], rough[i], n)

\* metrics holds the means of the waviness and the roughness now stored
MetricsFresh == MetricsFreshOf(waviness, roughness, metrics, npr)

----------------------------------------------------------------------------
\* C1: after a successful construction waviness[i][k] + roughness[i][k] equals
\* primary[i][k] for every row i and position k.
C1_Decomposition ==
    Ready0 =>
        \A i \in Rows : \A k \in Rows :
            Norm(NAdd(waviness[i][k], roughness[i][k])) = primary[i][k]

\* a constructed 4 x 4 surface with a non-zero roughness sample
C1_Witness ==
    /\ Ready0
    /\ npr = 4
    /\ \E i \in Rows : \E k \in Rows :
          roughness[i][k] # Zero /\ waviness[i][k] # Zero

\* C2: whenever the scan finds a stop index, a primary row of N equal samples
\* has itself as its waviness row and zeros as its roughness row.
C2_ConstantRow ==
    Ready0 =>
        \A i \in Rows :
            IsConstantRow(primary[i]) =>
                /\ waviness[i] = primary[i]
                /\ roughness[i] = ZeroRow(npr)

\* a constructed surface with a constant non-zero row beside a varying row
C2_Witness ==
    /\ Ready0
    /\ npr >= 2
    /\ \E i \in Rows : IsConstantRow(primary[i]) /\ primary[i][1] # Zero
    /\ \E i \in Rows : ~IsConstantRow(primary[i])

\* the 8 x 8 grid whose rows are all [5,5,5,5,5,5,5,5]
Fives == [k \in 1..8 |-> Num(5)]
AllFives == npr = 8 /\ Len(primary) = 8 /\ \A i \in 1..8 : primary[i] = Fives

FivesDecomposed ==
    /\ pc = "ready"
    /\ \A i \in 1..8 : /\ waviness[i] = Fives
                       /\ roughness[i] = ZeroRow(8)
                       /\ metrics.Wa[i] = Num(5)
                       /\ metrics.Ra[i] = Zero

\* C3 as stated: rows [5]*8 with sample_width = 100 and cutoff = 80 decompose
\* to waviness [5]*8, roughness [0]*8, Wa = 5.0 and Ra = 0.0.
C3_Original ==
    (Built /\ AllFives /\ sample_width = 100 /\ cutoff = 80) => FivesDecomposed

\* C3 amended: with sample_width = 100 and cutoff = 80 no j in 1..7 has
\* 600/j <= 80, and construction ends in the unbound-stop-index error with no
\* waviness row, no roughness and no metrics; with cutoff = 100 the
\* decomposition completes and yields waviness [5]*8, roughness [0]*8,
\* Wa = 5.0 and Ra = 0.0.
C3_Amended ==
    (Built /\ AllFives /\ sample_width = 100) =>
        /\ cutoff = 80 =>
              /\ pc = "failed"
              /\ err = "UnboundLocalError"
              /\ waviness = <<>>
              /\ roughness = <<>>
              /\ metrics = NoMetrics
              /\ {"roughness", "metrics"} \cap attrs = {}
        /\ cutoff = 100 => FivesDecomposed

\* the rows [5]*8 decomposed under sample_width = 100 and cutoff = 100
C3_Witness ==
    Built /\ AllFives /\ sample_width = 100 /\ cutoff = 100 /\ pc = "ready"

\* C4: whenever no j in 1..N-1 has 2*(3*sample_width)/j <= cutoff,
\* parse_waviness ends in an error before any waviness row is appended and
\* construction produces neither roughness nor metrics.
C4_UnreachableCutoffFails ==
    (Built /\ err # "ValueError" /\ NoStop(npr, sample_width, cutoff)) =>
        /\ pc = "failed"
        /\ err = "UnboundLocalError"
        /\ waviness = <<>>
        /\ "roughness" \notin attrs
        /\ "metrics" \notin attrs

\* C5: after a successful construction metrics has exactly the keys Wa and
\* Ra, each a series of N entries, entry i being the mean of the absolute
\* values of row i of waviness (roughness), hence >= 0.
C5_Metrics ==
    Ready0 =>
        /\ DOMAIN metrics = {"Wa", "Ra"}
        /\ Len(metrics.Wa) = npr
        /\ Len(metrics.Ra) = npr
        /\ \A i \in Rows :
              /\ IsMeanAbs(metrics.Wa[i], waviness[i], npr)
              /\ IsMeanAbs(metrics.Ra[i], roughness[i], npr)
              /\ NLe(Zero, metrics.Wa[i])
              /\ NLe(Zero, metrics.Ra[i])

\* a constructed surface with negative waviness and roughness samples whose
\* rows have different Wa
C5_Witness ==
    /\ Ready0
    /\ npr >= 2
    /\ \E i \in Rows : \E k \in Rows : Sign(waviness[i][k]) < 0
    /\ \E i \in Rows : \E k \in Rows : Sign(roughness[i][k]) < 0
    /\ \E i \in Rows : \E h \in Rows : metrics.Wa[i] # metrics.Wa[h]

\* the spectrum bins the filter does not zero, for a spectrum of M bins
KeptBins(M, stop) ==
    Apply(LAMBDA G : {k \in 0..(M - 1) : G[k + 1] # CZero},
          Filtered([h \in 1..M |-> CReal(Num(1))], stop, M))

\* Ra of one row under the cutoff co
RaUnder(row, n, sw, co) ==
    Apply(LAMBDA w : MeanAbs(RowDiff(row, w), n),
          WavinessRow(row, StopIndex(n, sw, co)))

BothStop(c1, c2) ==
    /\ c1 < c2
    /\ StopIndex(npr, sample_width, c1) # 0
    /\ StopIndex(npr, sample_width, c2) # 0

\* C6 as stated: for cutoffs c1 < c2 that both yield a stop index, the stop
\* index does not decrease, the bins kept under c2 contain those kept under
\* c1, and Ra of a row does not increase.
C6_Original ==
    Ready0 =>
        \A c1 \in Cutoffs : \A c2 \in Cutoffs :
            BothStop(c1, c2) =>
                /\ StopIndex(npr, sample_width, c2) >= StopIndex(npr, sample_width, c1)
                /\ KeptBins(3 * npr, StopIndex(npr, sample_width, c1))
                      \subseteq KeptBins(3 * npr, StopIndex(npr, sample_width, c2))
                /\ \A i \in Rows :
                      NLe(RaUnder(primary[i], npr, sample_width, c2),
                          RaUnder(primary[i], npr, sample_width, c1))

\* C6 amended: for cutoffs c1 < c2 that both yield a stop index, the stop
\* index does not increase as the cutoff grows, and the bins kept under c1
\* contain those kept under c2: the larger cutoff retains no more content in
\* waviness.  Ra of a row then follows no order: C6_Witness is a surface on
\* which the larger cutoff gives one row a strictly larger Ra and another row
\* a strictly smaller Ra.
C6_Amended ==
    pc = "ready" =>
        \A c1 \in Cutoffs : \A c2 \in Cutoffs :
            BothStop(c1, c2) =>
                /\ StopIndex(npr, sample_width, c2) <= StopIndex(npr, sample_width, c1)
                /\ KeptBins(3 * npr, StopIndex(npr, sample_width, c2))
                      \subseteq KeptBins(3 * npr, StopIndex(npr, sample_width, c1))

\* x < y
NLt(x, y) == NLe(x, y) /\ ~NLe(y, x)

\* a surface constructed under the cutoff c2 for which a smaller cutoff c1
\* has a strictly larger stop index, with a row whose Ra (as stored in
\* metrics) is strictly larger than its Ra under c1, and another row whose Ra
\* is strictly smaller than its Ra under c1
C6_Witness ==
    /\ Ready0
    /\ \E c1 \in Cutoffs :
          /\ BothStop(c1, cutoff)
          /\ StopIndex(npr, sample_width, cutoff) < StopIndex(npr, sample_width, c1)
          /\ \E i \in Rows :
                NLt(RaUnder(primary[i], npr, sample_width, c1), metrics.Ra[i])
          /\ \E i \in Rows :
                NLt(metrics.Ra[i], RaUnder(primary[i], npr, sample_width, c1))

\* C7 as stated: N = floor(sqrt(c)), the grid holds the first N*N samples in
\* row-major order, and a count that is no perfect square is not rejected.
C7_Original ==
    Built =>
        /\ npr * npr <= Count /\ Count < (npr + 1) * (npr + 1)
        /\ err # "ValueError"
        /\ Len(primary) = npr
        /\ \A i \in Rows : \A k \in Rows :
              primary[i][k] = SampleAt((i - 1) * npr + k)

\* C7 amended: N = floor(sqrt(c)); when c is a perfect square the N x N grid
\* holds all c samples in row-major order; when c is no perfect square the
\* reshape is rejected with a ValueError, construction fails, and no grid,
\* waviness, roughness or metrics is produced.
C7_Amended ==
    pc # "new" =>
        /\ npr * npr <= Count /\ Count < (npr + 1) * (npr + 1)
        /\ Count = npr * npr =>
              /\ err # "ValueError"
              /\ Len(primary) = npr
              /\ \A i \in Rows : \A k \in Rows :
                    primary[i][k] = SampleAt((i - 1) * npr + k)
        /\ Count # npr * npr =>
              /\ pc = "failed"
              /\ err = "ValueError"
              /\ attrs \cap {"waviness", "roughness", "metrics"} = {}

\* a file of 5 samples, rejected
C7_Witness == pc = "failed" /\ err = "ValueError" /\ Count = 5 /\ npr = 2

\* the spectrum C8 describes, from the transform F and the stop index
SpectrumAsClaimed(F, stop) ==
    LET M == Len(F)
    IN  [k1 \in 1..M |->
            LET k == k1 - 1
            IN  IF k = 0 THEN F[k1]
                ELSE IF k < stop THEN CNorm(CAdd(F[k1], F[k1]))
                ELSE IF k <= M - 2 THEN CZero
                ELSE F[k1]]

RowAsClaimed(row, stop) ==
    LET n == Len(row)
        Check(F) ==
            Apply(LAMBDA G : G = SpectrumAsClaimed(F, stop),
                  Filtered(Doubled(F, 3 * n), stop, 3 * n))
    IN  Apply(Check, FFT(Profile(row)))

\* C8: the stop index is the smallest j in 1..N-1 with
\* 2*(3*sample_width)/j <= cutoff, the same for every row; the filtered
\* spectrum is F[0] at bin 0, 2*F[k] at bins 1 <= k < stop, 0 at bins
\* stop <= k <= 3N-2 and F[3N-1] at the last bin; the waviness row is
\* positions N..2N-1 of the real part of its inverse transform.
C8_FilteredSpectrum ==
    (Ready0 /\ npr >= 1) =>
        LET stop == StopIndex(npr, sample_width, cutoff)
        IN  /\ stop \in 1..(npr - 1)
            /\ Reaches(sample_width, cutoff, stop)
            /\ \A j \in 1..(stop - 1) : ~Reaches(sample_width, cutoff, j)
            /\ Len(wavelengths) = stop
            /\ \A i \in Rows :
                  /\ RowAsClaimed(primary[i], stop)
                  /\ waviness[i] =
                        Apply(LAMBDA G : [k \in 1..npr |-> RealIFFTAt(G, npr + k - 1)],
                              Values(SpectrumAsClaimed(FFT(Profile(primary[i])), stop)))

\* a constructed surface with stop index >= 3 and a row whose transform is
\* non-zero at bin 1, at bin stop and at the last bin
C8_Witness ==
    /\ Ready0
    /\ StopIndex(npr, sample_width, cutoff) >= 3
    /\ \E i \in Rows :
          Apply(LAMBDA F : /\ F[2] # CZero
                           /\ F[StopIndex(npr, sample_width, cutoff) + 1] # CZero
                           /\ F[3 * npr] # CZero,
                FFT(Profile(primary[i])))

\* C9: when 2*(3*sample_width)/1 <= cutoff the stop index is 1 and bin 0 is
\* the only bin of the filtered spectrum that can be non-zero, so every
\* waviness row is constant.
C9_OnlyDCKept ==
    (Ready0 /\ npr >= 1 /\ Reaches(sample_width, cutoff, 1)) =>
        /\ StopIndex(npr, sample_width, cutoff) = 1
        /\ \A i \in Rows :
              /\ Apply(LAMBDA G : \A k1 \in 2..(3 * npr) : G[k1] = CZero,
                       Filtered(Doubled(FFT(Profile(primary[i])), 3 * npr), 1, 3 * npr))
              /\ IsConstantRow(waviness[i])

\* C10 as stated: in every state reached after construction by calls of the
\* public methods that raised nothing, with cutoff or sample_width possibly
\* reassigned in between, roughness is primary - waviness and metrics are the
\* per-row mean absolute values of the current waviness and roughness.
C10_Original == (pc = "ready" /\ err = "none") => RoughFresh /\ MetricsFresh

\* the waviness row the filter yields for a row and a stop index: positions
\* N..2N-1 of the real part of the inverse transform of the spectrum F[0],
\* 2*F[k] for 1 <= k < stop, 0 for stop <= k <= 3N-2, F[3N-1]
RowFromSpectrum(row, stop) ==
    LET n == Len(row)
        M == 3 * n
        Kept(p) == Values([k1 \in 1..M |->
                      IF k1 = 1 \/ k1 = M THEN FFT(p)[k1]
                      ELSE IF k1 - 1 < stop
                      THEN CNorm(CAdd(FFT(p)[k1], FFT(p)[k1]))
                      ELSE CZero])
        Back(G) == [k \in 1..n |-> RealIFFTAt(G, n + k - 1)]
    IN  Apply(Back, Apply(Kept, Profile(row)))

\* the smallest j in 1..n-1 with 2*(3*sw)/j <= co, as a set (empty if none)
FirstReach(n, sw, co) ==
    {j \in 1..(n - 1) : /\ Reaches(sw, co, j)
                         /\ \A h \in 1..(j - 1) : ~Reaches(sw, co, h)}

\* wav is the filter result of prim under sample width sw and cutoff co
WavFreshOf(prim, wav, n, sw, co) ==
    /\ Len(wav) = n
    /\ n >= 1 => \E stop \in FirstReach(n, sw, co) :
                     \A i \in 1..n : wav[i] = RowFromSpectrum(prim[i], stop)

\* w, r, m are a fresh set: w the filter result of prim under sw and co, r
\* the difference prim - w, m the per-row mean absolute values of w and r
FreshSet(prim, w, r, m, n, sw, co) ==
    /\ WavFreshOf(prim, w, n, sw, co)
    /\ RoughFreshOf(prim, w, r, n)
    /\ MetricsFreshOf(w, r, m, n)

\* C10 amended.  When construction completes the results are a fresh set of
\* the configuration; primary and N are changed by no method and no
\* assignment.  An assignment changes only the attribute.  Each method
\* replaces only its own result, from the current attributes:
\* parse_waviness stores the filter result of primary under the current
\* cutoff and sample_width (or, with N >= 1 and no stop index, fails leaving
\* waviness empty) and leaves roughness and metrics as they were;
\* parse_roughness stores primary - (current waviness) (or fails leaving
\* roughness empty when waviness is empty); calculate_metrics stores the
\* means of the current waviness and roughness (or fails leaving metrics as
\* they were when waviness or roughness is empty).  After an assignment that
\* changes the configuration, parse_waviness, parse_roughness and
\* calculate_metrics returning in that order leave a fresh set of the
\* current configuration; a result made fresh stays as it is until the next
\* such assignment.
C10_Amended ==
    [][ pc' = "ready" =>
          \E w \in {waviness'} : \E r \in {roughness'} : \E m \in {metrics'} :
             \* construction
             /\ pc = "new" =>
                   FreshSet(primary', w, r, m, npr', sample_width', cutoff')
             /\ pc = "ready" => primary' = primary /\ npr' = npr
             \* assignments
             /\ (SetCutoff \/ SetSampleWidth) =>
                   w = waviness /\ r = roughness /\ m = metrics
             \* each method replaces only its own result
             /\ (redo = "assigned" /\ redo' = "filtered") =>
                   WavFreshOf(primary, w, npr, sample_width, cutoff)
             /\ (pc = "ready" /\ err' = "UnboundLocalError") =>
                   w = <<>> /\ npr >= 1 /\ NoStop(npr, sample_width, cutoff)
             /\ (w = waviness /\ m = metrics /\ CallParseRoughness) =>
                   IF err' = "none"
                   THEN RoughFreshOf(primary, w, r, npr)
                   ELSE r = <<>> /\ err' = "IndexError" /\ Len(w) < npr
             /\ (w = waviness /\ r = roughness /\ CallCalculateMetrics) =>
                   IF err' = "none"
                   THEN MetricsFreshOf(w, r, m, npr)
                   ELSE /\ m = metrics
                        /\ err' = "IndexError"
                        /\ Len(w) < npr \/ Len(r) < npr
             /\ (pc = "ready" /\ w # waviness) =>
                   /\ r = roughness /\ m = metrics
                   /\ cutoff' = cutoff /\ sample_width' = sample_width
                   /\ \/ redo = "assigned" /\ redo' = "filtered"
                      \/ err' = "UnboundLocalError"
             /\ (pc = "ready" /\ r # roughness) => w = waviness /\ m = metrics
             /\ (pc = "ready" /\ m # metrics) => w = waviness /\ r = roughness
             \* the re-decomposition completed
             /\ (redo = "subtracted" /\ redo' = "done") =>
                   FreshSet(primary, w, r, m, npr, sample_width, cutoff)
             \* what has been made fresh stays as it is
             /\ (pc = "ready" /\ redo # "assigned" /\ redo' # "assigned") =>
                   w = waviness
             /\ (pc = "ready" /\ redo \in {"none", "subtracted", "done"}
                    /\ redo' \in {"none", "subtracted", "done"}) =>
                   r = roughness
             /\ (pc = "ready" /\ redo \in {"none", "done"}
                    /\ redo' \in {"none", "done"}) =>
                   m = metrics
      ]_vars

\* a re-decomposition completed in four steps: an assignment that changed the
\* configuration to sample_width 100, cutoff 100 (stop index 6, which no
\* other configuration of an 8 x 8 surface has), then the three methods in
\* order; the results are a fresh set of that configuration, with roughness
\* that is not zero
C10_Witness ==
    /\ pc = "ready"
    /\ redo = "done"
    /\ calls = 4
    /\ npr = 8
    /\ sample_width = 100
    /\ cutoff = 100
    /\ FreshSet(primary, waviness, roughness, metrics, npr, sample_width, cutoff)
    /\ \E i \in Rows : roughness[i] # ZeroRow(npr)

====
